---- MODULE Spec2Model ----
(***************************************************************************)
(* MapUnicodesTextNormalizer (src/normalizer.py).                          *)
(*                                                                         *)
(* A Python str is modelled as a sequence of code points, a one-character  *)
(* str as a sequence of length one.  The class attributes unicode_map and  *)
(* disallowed_unicode_category are state: Python lets any code rebind or   *)
(* mutate them, so that they stay the same is something to check.          *)
(* normalize_text is a process per caller: the generator expression hands  *)
(* the characters of the text, first to last, to __replace_character,      *)
(* which first asks unicode_map.get and only on a miss asks                *)
(* unicodedata.category; ''.join then concatenates the collected parts.    *)
(***************************************************************************)
EXTENDS Integers, Sequences, FiniteSets, TLC

VARIABLES
  unicode_map,                  \* class attribute: dict[str, str]
  disallowed_unicode_category,  \* class attribute: set[str]
  threads,                      \* the callers of normalize_text
  pc,                           \* per caller: where its call stands
  text,                         \* per caller: the argument of the call
  pos,                          \* per caller: index of the character the generator is at
  parts,                        \* per caller: the strings the generator has yielded
  calls,                        \* per caller: the lookups made so far, in order
  result,                       \* per caller: the returned str
  exc,                          \* per caller: the exception that ended the call
  kept                          \* per caller: << text, result >> of calls it kept

vars == << unicode_map, disallowed_unicode_category, threads, pc, text, pos,
           parts, calls, result, exc, kept >>

(* Longest text drawn over Alphabet. *)
MaxLen == 3

(* Longest text drawn over ShortAlphabet. *)
MaxShortLen == 2

(* Mutant of disallowed_unicode_category: the entry 'Ps' left out. *)
disallowed_unicode_category_without_Ps ==
  { "Cc", "Cf", "Mc", "Me", "Mn", "Pc", "Pd", "Pe", "Pf", "Pi", "Po",
    "Sm", "So", "Zl", "Zp" }

(* disallowed_unicode_category, as written in the class body. *)
disallowed_unicode_category_literal ==
  { "Cc", "Cf", "Mc", "Me", "Mn", "Pc", "Pd", "Pe", "Pf", "Pi", "Po", "Ps",
    "Sm", "So", "Zl", "Zp" }

(* unicode_map, as written in the class body: entry i is source line 37+i, *)
(* << key, value >>, both Python str.                                      *)
unicode_map_literal ==
  <<
  << <<\h00b4>>, <<\h00b4>> >>,
  << <<\h02dd>>, <<\h00b4>> >>,
  << <<\h02f6>>, <<\h00b4>> >>,
  << <<\h1ffd>>, <<\h00b4>> >>,
  << <<\hff40>>, <<\h00b4>> >>,
  << <<\h0026>>, <<\h0026>> >>,
  << <<\h214b>>, <<\h0026>> >>,
  << <<\hfe60>>, <<\h0026>> >>,
  << <<\hff06>>, <<\h0026>> >>,
  << <<\h16b3a>>, <<\h0026>> >>,
  << <<\h0027>>, <<\h0027>> >>,
  << <<\hff07>>, <<\h0027>> >>,
  << <<\h11a41>>, <<\h0027>> >>,
  << <<\h002a>>, <<\h002a>> >>,
  << <<\h066d>>, <<\h002a>> >>,
  << <<\h2042>>, <<\h002a>> >>,
  << <<\h2051>>, <<\h002a>> >>,
  << <<\h2055>>, <<\h002a>> >>,
  << <<\h2217>>, <<\h002a>> >>,
  << <<\h22c6>>, <<\h002a>> >>,
  << <<\h22c7>>, <<\h002a>> >>,
  << <<\h204e>>, <<\h002a>> >>,
  << <<\ha60e>>, <<\h002a>> >>,
  << <<\ha673>>, <<\h002a>> >>,
  << <<\hfe61>>, <<\h002a>> >>,
  << <<\hff0a>>, <<\h002a>> >>,
  << <<\h003a>>, <<\h003a>> >>,
  << <<\h02f8>>, <<\h003a>> >>,
  << <<\h0589>>, <<\h003a>> >>,
  << <<\h05c3>>, <<\h003a>> >>,
  << <<\h0703>>, <<\h003a>> >>,
  << <<\h0704>>, <<\h003a>> >>,
  << <<\h0706>>, <<\h003a>> >>,
  << <<\h0707>>, <<\h003a>> >>,
  << <<\h0708>>, <<\h003a>> >>,
  << <<\h0709>>, <<\h003a>> >>,
  << <<\h0831>>, <<\h003a>> >>,
  << <<\h0fd2>>, <<\h003a>> >>,
  << <<\h1361>>, <<\h003a>> >>,
  << <<\h1366>>, <<\h003a>> >>,
  << <<\h1367>>, <<\h003a>> >>,
  << <<\h16ec>>, <<\h003a>> >>,
  << <<\h1804>>, <<\h003a>> >>,
  << <<\h1a1e>>, <<\h003a>> >>,
  << <<\h1b5d>>, <<\h003a>> >>,
  << <<\h205a>>, <<\h003a>> >>,
  << <<\h205d>>, <<\h003a>> >>,
  << <<\h205e>>, <<\h003a>> >>,
  << <<\h2236>>, <<\h003a>> >>,
  << <<\h22ee>>, <<\h003a>> >>,
  << <<\h2982>>, <<\h003a>> >>,
  << <<\h2999>>, <<\h003a>> >>,
  << <<\h2af6>>, <<\h003a>> >>,
  << <<\h2e3d>>, <<\h003a>> >>,
  << <<\ha789>>, <<\h003a>> >>,
  << <<\hfbbd>>, <<\h003a>> >>,
  << <<\hfbbe>>, <<\h003a>> >>,
  << <<\hfe13>>, <<\h003a>> >>,
  << <<\hfe19>>, <<\h003a>> >>,
  << <<\hfe30>>, <<\h003a>> >>,
  << <<\hfe55>>, <<\h003a>> >>,
  << <<\hff1a>>, <<\h003a>> >>,
  << <<\h10af5>>, <<\h003a>> >>,
  << <<\h1104a>>, <<\h003a>> >>,
  << <<\h1123a>>, <<\h003a>> >>,
  << <<\h112a9>>, <<\h003a>> >>,
  << <<\h11ef7>>, <<\h003a>> >>,
  << <<\h002c>>, <<\h002c>> >>,
  << <<\h02db>>, <<\h002c>> >>,
  << <<\h0375>>, <<\h002c>> >>,
  << <<\h060c>>, <<\h002c>> >>,
  << <<\h066b>>, <<\h002c>> >>,
  << <<\h066c>>, <<\h002c>> >>,
  << <<\h201a>>, <<\h002c>> >>,
  << <<\h201e>>, <<\h002c>> >>,
  << <<\h2e12>>, <<\h002c>> >>,
  << <<\h2e32>>, <<\h002c>> >>,
  << <<\h2e34>>, <<\h002c>> >>,
  << <<\h2e41>>, <<\h002c>> >>,
  << <<\h3001>>, <<\h002c>> >>,
  << <<\haa5d>>, <<\h002c>> >>,
  << <<\hfe45>>, <<\h002c>> >>,
  << <<\hfe46>>, <<\h002c>> >>,
  << <<\hfe50>>, <<\h002c>> >>,
  << <<\hfe51>>, <<\h002c>> >>,
  << <<\hff0c>>, <<\h002c>> >>,
  << <<\hff64>>, <<\h002c>> >>,
  << <<\h10100>>, <<\h002c>> >>,
  << <<\h111c8>>, <<\h002c>> >>,
  << <<\h1144d>>, <<\h002c>> >>,
  << <<\h11c43>>, <<\h002c>> >>,
  << <<\h16e97>>, <<\h002c>> >>,
  << <<\h16e98>>, <<\h002c>> >>,
  << <<\h0040>>, <<\h0040>> >>,
  << <<\hfe6b>>, <<\h0040>> >>,
  << <<\hff20>>, <<\h0040>> >>,
  << <<\h003d>>, <<\h003d>> >>,
  << <<\h02ed>>, <<\h003d>> >>,
  << <<\h083a>>, <<\h003d>> >>,
  << <<\h1400>>, <<\h003d>> >>,
  << <<\h2017>>, <<\h003d>> >>,
  << <<\h207c>>, <<\h003d>> >>,
  << <<\h208c>>, <<\h003d>> >>,
  << <<\h2242>>, <<\h003d>> >>,
  << <<\h2243>>, <<\h003d>> >>,
  << <<\h2244>>, <<\h003d>> >>,
  << <<\h2245>>, <<\h003d>> >>,
  << <<\h2246>>, <<\h003d>> >>,
  << <<\h2247>>, <<\h003d>> >>,
  << <<\h2248>>, <<\h003d>> >>,
  << <<\h2249>>, <<\h003d>> >>,
  << <<\h224a>>, <<\h003d>> >>,
  << <<\h224b>>, <<\h003d>> >>,
  << <<\h224c>>, <<\h003d>> >>,
  << <<\h224d>>, <<\h003d>> >>,
  << <<\h224e>>, <<\h003d>> >>,
  << <<\h224f>>, <<\h003d>> >>,
  << <<\h2250>>, <<\h003d>> >>,
  << <<\h2251>>, <<\h003d>> >>,
  << <<\h2252>>, <<\h003d>> >>,
  << <<\h2253>>, <<\h003d>> >>,
  << <<\h2254>>, <<\h003d>> >>,
  << <<\h2255>>, <<\h003d>> >>,
  << <<\h2256>>, <<\h003d>> >>,
  << <<\h2257>>, <<\h003d>> >>,
  << <<\h2258>>, <<\h003d>> >>,
  << <<\h2259>>, <<\h003d>> >>,
  << <<\h225a>>, <<\h003d>> >>,
  << <<\h225b>>, <<\h003d>> >>,
  << <<\h225c>>, <<\h003d>> >>,
  << <<\h225d>>, <<\h003d>> >>,
  << <<\h225e>>, <<\h003d>> >>,
  << <<\h225f>>, <<\h003d>> >>,
  << <<\h2260>>, <<\h003d>> >>,
  << <<\h2261>>, <<\h003d>> >>,
  << <<\h2262>>, <<\h003d>> >>,
  << <<\h2263>>, <<\h003d>> >>,
  << <<\h22cd>>, <<\h003d>> >>,
  << <<\h2a66>>, <<\h003d>> >>,
  << <<\h2a67>>, <<\h003d>> >>,
  << <<\h2a6c>>, <<\h003d>> >>,
  << <<\h2a6d>>, <<\h003d>> >>,
  << <<\h2a6e>>, <<\h003d>> >>,
  << <<\h2a6f>>, <<\h003d>> >>,
  << <<\h2a70>>, <<\h003d>> >>,
  << <<\h2a73>>, <<\h003d>> >>,
  << <<\h2a74>>, <<\h003d>> >>,
  << <<\h2a75>>, <<\h003d>> >>,
  << <<\h2a76>>, <<\h003d>> >>,
  << <<\h2a77>>, <<\h003d>> >>,
  << <<\h2a78>>, <<\h003d>> >>,
  << <<\h2aae>>, <<\h003d>> >>,
  << <<\h2e40>>, <<\h003d>> >>,
  << <<\ha4ff>>, <<\h003d>> >>,
  << <<\ha78a>>, <<\h003d>> >>,
  << <<\hfe66>>, <<\h003d>> >>,
  << <<\hff1d>>, <<\h003d>> >>,
  << <<\h110bf>>, <<\h003d>> >>,
  << <<\h111de>>, <<\h003d>> >>,
  << <<\h1123c>>, <<\h003d>> >>,
  << <<\h1bc9f>>, <<\h003d>> >>,
  << <<\h002e>>, <<\h002e>> >>,
  << <<\h00b7>>, <<\h002e>> >>,
  << <<\h02d9>>, <<\h002e>> >>,
  << <<\h0387>>, <<\h002e>> >>,
  << <<\h06d4>>, <<\h002e>> >>,
  << <<\h0701>>, <<\h002e>> >>,
  << <<\h0702>>, <<\h002e>> >>,
  << <<\h0830>>, <<\h002e>> >>,
  << <<\h0a76>>, <<\h002e>> >>,
  << <<\h0f0b>>, <<\h002e>> >>,
  << <<\h0f0c>>, <<\h002e>> >>,
  << <<\h16eb>>, <<\h002e>> >>,
  << <<\h1801>>, <<\h002e>> >>,
  << <<\h1802>>, <<\h002e>> >>,
  << <<\h2022>>, <<\h002e>> >>,
  << <<\h2024>>, <<\h002e>> >>,
  << <<\h2025>>, <<\h002e>> >>,
  << <<\h2026>>, <<\h002e>> >>,
  << <<\h2027>>, <<\h002e>> >>,
  << <<\h2219>>, <<\h002e>> >>,
  << <<\h22c5>>, <<\h002e>> >>,
  << <<\h2981>>, <<\h002e>> >>,
  << <<\h2e31>>, <<\h002e>> >>,
  << <<\h2e33>>, <<\h002e>> >>,
  << <<\h30fb>>, <<\h002e>> >>,
  << <<\hfbb2>>, <<\h002e>> >>,
  << <<\hfbb3>>, <<\h002e>> >>,
  << <<\hfe52>>, <<\h002e>> >>,
  << <<\hff0e>>, <<\h002e>> >>,
  << <<\hff65>>, <<\h002e>> >>,
  << <<\h10101>>, <<\h002e>> >>,
  << <<\h1091f>>, <<\h002e>> >>,
  << <<\h10a50>>, <<\h002e>> >>,
  << <<\h10af4>>, <<\h002e>> >>,
  << <<\h11049>>, <<\h002e>> >>,
  << <<\h11174>>, <<\h002e>> >>,
  << <<\h111c7>>, <<\h002e>> >>,
  << <<\h115c4>>, <<\h002e>> >>,
  << <<\h0060>>, <<\h0060>> >>,
  << <<\h02f4>>, <<\h0060>> >>,
  << <<\h02f5>>, <<\h0060>> >>,
  << <<\h1fef>>, <<\h0060>> >>,
  << <<\h003e>>, <<\h003e>> >>,
  << <<\h00bb>>, <<\h003e>> >>,
  << <<\h02c3>>, <<\h003e>> >>,
  << <<\h02f2>>, <<\h003e>> >>,
  << <<\h169b>>, <<\h003e>> >>,
  << <<\h1808>>, <<\h003e>> >>,
  << <<\h1809>>, <<\h003e>> >>,
  << <<\h203a>>, <<\h003e>> >>,
  << <<\h2265>>, <<\h003e>> >>,
  << <<\h2267>>, <<\h003e>> >>,
  << <<\h2269>>, <<\h003e>> >>,
  << <<\h226b>>, <<\h003e>> >>,
  << <<\h226f>>, <<\h003e>> >>,
  << <<\h2271>>, <<\h003e>> >>,
  << <<\h2273>>, <<\h003e>> >>,
  << <<\h2275>>, <<\h003e>> >>,
  << <<\h227b>>, <<\h003e>> >>,
  << <<\h227d>>, <<\h003e>> >>,
  << <<\h227f>>, <<\h003e>> >>,
  << <<\h2281>>, <<\h003e>> >>,
  << <<\h22b1>>, <<\h003e>> >>,
  << <<\h22d7>>, <<\h003e>> >>,
  << <<\h22d9>>, <<\h003e>> >>,
  << <<\h22dd>>, <<\h003e>> >>,
  << <<\h22df>>, <<\h003e>> >>,
  << <<\h22e1>>, <<\h003e>> >>,
  << <<\h22e7>>, <<\h003e>> >>,
  << <<\h22e9>>, <<\h003e>> >>,
  << <<\h232a>>, <<\h003e>> >>,
  << <<\h276d>>, <<\h003e>> >>,
  << <<\h276f>>, <<\h003e>> >>,
  << <<\h2771>>, <<\h003e>> >>,
  << <<\h27e9>>, <<\h003e>> >>,
  << <<\h27eb>>, <<\h003e>> >>,
  << <<\h297d>>, <<\h003e>> >>,
  << <<\h298a>>, <<\h003e>> >>,
  << <<\h2992>>, <<\h003e>> >>,
  << <<\h2994>>, <<\h003e>> >>,
  << <<\h29a0>>, <<\h003e>> >>,
  << <<\h29fd>>, <<\h003e>> >>,
  << <<\h2a20>>, <<\h003e>> >>,
  << <<\h2a7a>>, <<\h003e>> >>,
  << <<\h2a7c>>, <<\h003e>> >>,
  << <<\h2a7e>>, <<\h003e>> >>,
  << <<\h2a80>>, <<\h003e>> >>,
  << <<\h2a82>>, <<\h003e>> >>,
  << <<\h2a84>>, <<\h003e>> >>,
  << <<\h2a86>>, <<\h003e>> >>,
  << <<\h2a88>>, <<\h003e>> >>,
  << <<\h2a8a>>, <<\h003e>> >>,
  << <<\h2a8e>>, <<\h003e>> >>,
  << <<\h2a96>>, <<\h003e>> >>,
  << <<\h2a98>>, <<\h003e>> >>,
  << <<\h2a9a>>, <<\h003e>> >>,
  << <<\h2a9c>>, <<\h003e>> >>,
  << <<\h2a9e>>, <<\h003e>> >>,
  << <<\h2aa0>>, <<\h003e>> >>,
  << <<\h2aa2>>, <<\h003e>> >>,
  << <<\h2aad>>, <<\h003e>> >>,
  << <<\h2ab0>>, <<\h003e>> >>,
  << <<\h2ab2>>, <<\h003e>> >>,
  << <<\h2ab4>>, <<\h003e>> >>,
  << <<\h2ab6>>, <<\h003e>> >>,
  << <<\h2ab8>>, <<\h003e>> >>,
  << <<\h2aba>>, <<\h003e>> >>,
  << <<\h2abc>>, <<\h003e>> >>,
  << <<\h2af8>>, <<\h003e>> >>,
  << <<\h2afa>>, <<\h003e>> >>,
  << <<\h2e03>>, <<\h003e>> >>,
  << <<\h2e05>>, <<\h003e>> >>,
  << <<\h2e16>>, <<\h003e>> >>,
  << <<\h3009>>, <<\h003e>> >>,
  << <<\h300b>>, <<\h003e>> >>,
  << <<\hfe3e>>, <<\h003e>> >>,
  << <<\hfe40>>, <<\h003e>> >>,
  << <<\hfe65>>, <<\h003e>> >>,
  << <<\hff1e>>, <<\h003e>> >>,
  << <<\h002d>>, <<\h002d>> >>,
  << <<\h058a>>, <<\h002d>> >>,
  << <<\h05be>>, <<\h002d>> >>,
  << <<\h1680>>, <<\h002d>> >>,
  << <<\h1806>>, <<\h002d>> >>,
  << <<\h180a>>, <<\h002d>> >>,
  << <<\h2010>>, <<\h002d>> >>,
  << <<\h2011>>, <<\h002d>> >>,
  << <<\h2012>>, <<\h002d>> >>,
  << <<\h2013>>, <<\h002d>> >>,
  << <<\h2014>>, <<\h002d>> >>,
  << <<\h2015>>, <<\h002d>> >>,
  << <<\h2043>>, <<\h002d>> >>,
  << <<\h207b>>, <<\h002d>> >>,
  << <<\h208b>>, <<\h002d>> >>,
  << <<\h2212>>, <<\h002d>> >>,
  << <<\h23af>>, <<\h002d>> >>,
  << <<\h23bb>>, <<\h002d>> >>,
  << <<\h29ff>>, <<\h002d>> >>,
  << <<\h2a29>>, <<\h002d>> >>,
  << <<\h2a2a>>, <<\h002d>> >>,
  << <<\h2a2b>>, <<\h002d>> >>,
  << <<\h2a2c>>, <<\h002d>> >>,
  << <<\h2e3a>>, <<\h002d>> >>,
  << <<\h2e3b>>, <<\h002d>> >>,
  << <<\h30a0>>, <<\h002d>> >>,
  << <<\hfe58>>, <<\h002d>> >>,
  << <<\hfe63>>, <<\h002d>> >>,
  << <<\hff0d>>, <<\h002d>> >>,
  << <<\h1104b>>, <<\h002d>> >>,
  << <<\h110be>>, <<\h002d>> >>,
  << <<\h02ea>>, <<\h300c>> >>,
  << <<\h02f9>>, <<\h300c>> >>,
  << <<\h02fb>>, <<\h300c>> >>,
  << <<\h221f>>, <<\h300c>> >>,
  << <<\h2308>>, <<\h300c>> >>,
  << <<\h230a>>, <<\h300c>> >>,
  << <<\h23a1>>, <<\h300c>> >>,
  << <<\h23a3>>, <<\h300c>> >>,
  << <<\h2a3d>>, <<\h300c>> >>,
  << <<\h2e22>>, <<\h300c>> >>,
  << <<\h2e24>>, <<\h300c>> >>,
  << <<\h300c>>, <<\h300c>> >>,
  << <<\h300e>>, <<\h300c>> >>,
  << <<\ha712>>, <<\h300c>> >>,
  << <<\ha716>>, <<\h300c>> >>,
  << <<\hfe41>>, <<\h300c>> >>,
  << <<\hfe43>>, <<\h300c>> >>,
  << <<\hff62>>, <<\h300c>> >>,
  << <<\h007b>>, <<\h007b>> >>,
  << <<\h23a8>>, <<\h007b>> >>,
  << <<\h23de>>, <<\h007b>> >>,
  << <<\h2774>>, <<\h007b>> >>,
  << <<\h2983>>, <<\h007b>> >>,
  << <<\hfe37>>, <<\h007b>> >>,
  << <<\hfe5b>>, <<\h007b>> >>,
  << <<\hff5b>>, <<\h007b>> >>,
  << <<\h201c>>, <<\h201c>> >>,
  << <<\h201f>>, <<\h201c>> >>,
  << <<\h2036>>, <<\h201c>> >>,
  << <<\h2037>>, <<\h201c>> >>,
  << <<\h2e42>>, <<\h201c>> >>,
  << <<\h301d>>, <<\h201c>> >>,
  << <<\h309b>>, <<\h201c>> >>,
  << <<\h0028>>, <<\h0028>> >>,
  << <<\h02d3>>, <<\h0028>> >>,
  << <<\h2040>>, <<\h0028>> >>,
  << <<\h2054>>, <<\h0028>> >>,
  << <<\h207d>>, <<\h0028>> >>,
  << <<\h208d>>, <<\h0028>> >>,
  << <<\h23dc>>, <<\h0028>> >>,
  << <<\h2768>>, <<\h0028>> >>,
  << <<\h276a>>, <<\h0028>> >>,
  << <<\h2985>>, <<\h0028>> >>,
  << <<\h2987>>, <<\h0028>> >>,
  << <<\h2995>>, <<\h0028>> >>,
  << <<\h2e26>>, <<\h0028>> >>,
  << <<\h2e28>>, <<\h0028>> >>,
  << <<\hfd3e>>, <<\h0028>> >>,
  << <<\hfe35>>, <<\h0028>> >>,
  << <<\hfe59>>, <<\h0028>> >>,
  << <<\hff08>>, <<\h0028>> >>,
  << <<\hff5f>>, <<\h0028>> >>,
  << <<\h055d>>, <<\h2018>> >>,
  << <<\h2018>>, <<\h2018>> >>,
  << <<\h201b>>, <<\h2018>> >>,
  << <<\h2035>>, <<\h2018>> >>,
  << <<\h2e0c>>, <<\h2018>> >>,
  << <<\h2e1c>>, <<\h2018>> >>,
  << <<\h10ead>>, <<\h2018>> >>,
  << <<\h005b>>, <<\h005b>> >>,
  << <<\h2045>>, <<\h005b>> >>,
  << <<\h23e0>>, <<\h005b>> >>,
  << <<\h2772>>, <<\h005b>> >>,
  << <<\h27e6>>, <<\h005b>> >>,
  << <<\h27ec>>, <<\h005b>> >>,
  << <<\h27ee>>, <<\h005b>> >>,
  << <<\h298b>>, <<\h005b>> >>,
  << <<\h298d>>, <<\h005b>> >>,
  << <<\h298f>>, <<\h005b>> >>,
  << <<\h2997>>, <<\h005b>> >>,
  << <<\h3010>>, <<\h005b>> >>,
  << <<\h3014>>, <<\h005b>> >>,
  << <<\h3016>>, <<\h005b>> >>,
  << <<\h3018>>, <<\h005b>> >>,
  << <<\h301a>>, <<\h005b>> >>,
  << <<\hfe17>>, <<\h005b>> >>,
  << <<\hfe39>>, <<\h005b>> >>,
  << <<\hfe3b>>, <<\h005b>> >>,
  << <<\hfe47>>, <<\h005b>> >>,
  << <<\hfe5d>>, <<\h005b>> >>,
  << <<\hff3b>>, <<\h005b>> >>,
  << <<\h003c>>, <<\h003c>> >>,
  << <<\h00ab>>, <<\h003c>> >>,
  << <<\h02c2>>, <<\h003c>> >>,
  << <<\h02f1>>, <<\h003c>> >>,
  << <<\h169c>>, <<\h003c>> >>,
  << <<\h2039>>, <<\h003c>> >>,
  << <<\h2222>>, <<\h003c>> >>,
  << <<\h2264>>, <<\h003c>> >>,
  << <<\h2266>>, <<\h003c>> >>,
  << <<\h2268>>, <<\h003c>> >>,
  << <<\h226a>>, <<\h003c>> >>,
  << <<\h226e>>, <<\h003c>> >>,
  << <<\h2270>>, <<\h003c>> >>,
  << <<\h2272>>, <<\h003c>> >>,
  << <<\h2274>>, <<\h003c>> >>,
  << <<\h227a>>, <<\h003c>> >>,
  << <<\h227c>>, <<\h003c>> >>,
  << <<\h227e>>, <<\h003c>> >>,
  << <<\h2280>>, <<\h003c>> >>,
  << <<\h22b0>>, <<\h003c>> >>,
  << <<\h22d6>>, <<\h003c>> >>,
  << <<\h22d8>>, <<\h003c>> >>,
  << <<\h22dc>>, <<\h003c>> >>,
  << <<\h22de>>, <<\h003c>> >>,
  << <<\h22e0>>, <<\h003c>> >>,
  << <<\h22e6>>, <<\h003c>> >>,
  << <<\h22e8>>, <<\h003c>> >>,
  << <<\h2329>>, <<\h003c>> >>,
  << <<\h276c>>, <<\h003c>> >>,
  << <<\h276e>>, <<\h003c>> >>,
  << <<\h2770>>, <<\h003c>> >>,
  << <<\h27e8>>, <<\h003c>> >>,
  << <<\h27ea>>, <<\h003c>> >>,
  << <<\h297c>>, <<\h003c>> >>,
  << <<\h2989>>, <<\h003c>> >>,
  << <<\h2991>>, <<\h003c>> >>,
  << <<\h2993>>, <<\h003c>> >>,
  << <<\h29fc>>, <<\h003c>> >>,
  << <<\h2a79>>, <<\h003c>> >>,
  << <<\h2a7b>>, <<\h003c>> >>,
  << <<\h2a7d>>, <<\h003c>> >>,
  << <<\h2a7f>>, <<\h003c>> >>,
  << <<\h2a81>>, <<\h003c>> >>,
  << <<\h2a83>>, <<\h003c>> >>,
  << <<\h2a85>>, <<\h003c>> >>,
  << <<\h2a87>>, <<\h003c>> >>,
  << <<\h2a89>>, <<\h003c>> >>,
  << <<\h2a8d>>, <<\h003c>> >>,
  << <<\h2a95>>, <<\h003c>> >>,
  << <<\h2a97>>, <<\h003c>> >>,
  << <<\h2a99>>, <<\h003c>> >>,
  << <<\h2a9b>>, <<\h003c>> >>,
  << <<\h2a9d>>, <<\h003c>> >>,
  << <<\h2a9f>>, <<\h003c>> >>,
  << <<\h2aa1>>, <<\h003c>> >>,
  << <<\h2aa3>>, <<\h003c>> >>,
  << <<\h2aac>>, <<\h003c>> >>,
  << <<\h2aaf>>, <<\h003c>> >>,
  << <<\h2ab1>>, <<\h003c>> >>,
  << <<\h2ab3>>, <<\h003c>> >>,
  << <<\h2ab5>>, <<\h003c>> >>,
  << <<\h2ab7>>, <<\h003c>> >>,
  << <<\h2ab9>>, <<\h003c>> >>,
  << <<\h2abb>>, <<\h003c>> >>,
  << <<\h2af7>>, <<\h003c>> >>,
  << <<\h2af9>>, <<\h003c>> >>,
  << <<\h2e02>>, <<\h003c>> >>,
  << <<\h2e04>>, <<\h003c>> >>,
  << <<\h3008>>, <<\h003c>> >>,
  << <<\h300a>>, <<\h003c>> >>,
  << <<\hfe3d>>, <<\h003c>> >>,
  << <<\hfe3f>>, <<\h003c>> >>,
  << <<\hfe64>>, <<\h003c>> >>,
  << <<\hff1c>>, <<\h003c>> >>,
  << <<\h005f>>, <<\h005f>> >>,
  << <<\h2e0f>>, <<\h005f>> >>,
  << <<\h2e10>>, <<\h005f>> >>,
  << <<\h2e11>>, <<\h005f>> >>,
  << <<\hfe4d>>, <<\h005f>> >>,
  << <<\hfe4e>>, <<\h005f>> >>,
  << <<\hfe4f>>, <<\h005f>> >>,
  << <<\hff3f>>, <<\h005f>> >>,
  << <<\h00d7>>, <<\h00d7>> >>,
  << <<\h02df>>, <<\h00d7>> >>,
  << <<\h166e>>, <<\h00d7>> >>,
  << <<\h1c3d>>, <<\h00d7>> >>,
  << <<\h1c3e>>, <<\h00d7>> >>,
  << <<\h2a09>>, <<\h00d7>> >>,
  << <<\h2a2f>>, <<\h00d7>> >>,
  << <<\h2a30>>, <<\h00d7>> >>,
  << <<\h2a31>>, <<\h00d7>> >>,
  << <<\h2a32>>, <<\h00d7>> >>,
  << <<\h2e3c>>, <<\h00d7>> >>,
  << <<\h10102>>, <<\h00d7>> >>,
  << <<\h0025>>, <<\h0025>> >>,
  << <<\h0609>>, <<\h0025>> >>,
  << <<\h060a>>, <<\h0025>> >>,
  << <<\h066a>>, <<\h0025>> >>,
  << <<\h2030>>, <<\h0025>> >>,
  << <<\h2031>>, <<\h0025>> >>,
  << <<\h2052>>, <<\h0025>> >>,
  << <<\h2e13>>, <<\h0025>> >>,
  << <<\hfe6a>>, <<\h0025>> >>,
  << <<\hff05>>, <<\h0025>> >>,
  << <<\h002b>>, <<\h002b>> >>,
  << <<\h16ed>>, <<\h002b>> >>,
  << <<\h207a>>, <<\h002b>> >>,
  << <<\h208a>>, <<\h002b>> >>,
  << <<\h2214>>, <<\h002b>> >>,
  << <<\h29fe>>, <<\h002b>> >>,
  << <<\h2a22>>, <<\h002b>> >>,
  << <<\h2a23>>, <<\h002b>> >>,
  << <<\h2a24>>, <<\h002b>> >>,
  << <<\h2a25>>, <<\h002b>> >>,
  << <<\h2a26>>, <<\h002b>> >>,
  << <<\h2a27>>, <<\h002b>> >>,
  << <<\h2a28>>, <<\h002b>> >>,
  << <<\hfe62>>, <<\h002b>> >>,
  << <<\hff0b>>, <<\h002b>> >>,
  << <<\h003f>>, <<\h003f>> >>,
  << <<\h00bf>>, <<\h003f>> >>,
  << <<\h061f>>, <<\h003f>> >>,
  << <<\h2047>>, <<\h003f>> >>,
  << <<\h2048>>, <<\h003f>> >>,
  << <<\h2049>>, <<\h003f>> >>,
  << <<\h2e18>>, <<\h003f>> >>,
  << <<\h2e2e>>, <<\h003f>> >>,
  << <<\h2e4c>>, <<\h003f>> >>,
  << <<\hfe16>>, <<\h003f>> >>,
  << <<\hfe56>>, <<\h003f>> >>,
  << <<\hff1f>>, <<\h003f>> >>,
  << <<\h119e2>>, <<\h003f>> >>,
  << <<\h0022>>, <<\h0022>> >>,
  << <<\hff02>>, <<\h0022>> >>,
  << <<\h11944>>, <<\h0022>> >>,
  << <<\h005c>>, <<\h005c>> >>,
  << <<\h2216>>, <<\h005c>> >>,
  << <<\h29f5>>, <<\h005c>> >>,
  << <<\h29f7>>, <<\h005c>> >>,
  << <<\h29f9>>, <<\h005c>> >>,
  << <<\h2cf9>>, <<\h005c>> >>,
  << <<\h2cfb>>, <<\h005c>> >>,
  << <<\hfe68>>, <<\h005c>> >>,
  << <<\hff3c>>, <<\h005c>> >>,
  << <<\h02e5>>, <<\h300d>> >>,
  << <<\h02e9>>, <<\h300d>> >>,
  << <<\h02fa>>, <<\h300d>> >>,
  << <<\h02fc>>, <<\h300d>> >>,
  << <<\h02fe>>, <<\h300d>> >>,
  << <<\h2142>>, <<\h300d>> >>,
  << <<\h2143>>, <<\h300d>> >>,
  << <<\h2309>>, <<\h300d>> >>,
  << <<\h230b>>, <<\h300d>> >>,
  << <<\h23a4>>, <<\h300d>> >>,
  << <<\h23a6>>, <<\h300d>> >>,
  << <<\h2a3c>>, <<\h300d>> >>,
  << <<\h2e23>>, <<\h300d>> >>,
  << <<\h2e25>>, <<\h300d>> >>,
  << <<\h300d>>, <<\h300d>> >>,
  << <<\h300f>>, <<\h300d>> >>,
  << <<\hfe42>>, <<\h300d>> >>,
  << <<\hfe44>>, <<\h300d>> >>,
  << <<\hff63>>, <<\h300d>> >>,
  << <<\h007d>>, <<\h007d>> >>,
  << <<\h23ac>>, <<\h007d>> >>,
  << <<\h23df>>, <<\h007d>> >>,
  << <<\h2775>>, <<\h007d>> >>,
  << <<\h2984>>, <<\h007d>> >>,
  << <<\hfe38>>, <<\h007d>> >>,
  << <<\hfe5c>>, <<\h007d>> >>,
  << <<\hff5d>>, <<\h007d>> >>,
  << <<\h05f4>>, <<\h201d>> >>,
  << <<\h1cd3>>, <<\h201d>> >>,
  << <<\h201d>>, <<\h201d>> >>,
  << <<\h2033>>, <<\h201d>> >>,
  << <<\h2034>>, <<\h201d>> >>,
  << <<\h2057>>, <<\h201d>> >>,
  << <<\h2e17>>, <<\h201d>> >>,
  << <<\h3003>>, <<\h201d>> >>,
  << <<\h301e>>, <<\h201d>> >>,
  << <<\h301f>>, <<\h201d>> >>,
  << <<\h0029>>, <<\h0029>> >>,
  << <<\h02d2>>, <<\h0029>> >>,
  << <<\h203f>>, <<\h0029>> >>,
  << <<\h207e>>, <<\h0029>> >>,
  << <<\h208e>>, <<\h0029>> >>,
  << <<\h23dd>>, <<\h0029>> >>,
  << <<\h2769>>, <<\h0029>> >>,
  << <<\h276b>>, <<\h0029>> >>,
  << <<\h2986>>, <<\h0029>> >>,
  << <<\h2988>>, <<\h0029>> >>,
  << <<\h2996>>, <<\h0029>> >>,
  << <<\h2e27>>, <<\h0029>> >>,
  << <<\h2e29>>, <<\h0029>> >>,
  << <<\hfd3f>>, <<\h0029>> >>,
  << <<\hfe36>>, <<\h0029>> >>,
  << <<\hfe5a>>, <<\h0029>> >>,
  << <<\hff09>>, <<\h0029>> >>,
  << <<\hff60>>, <<\h0029>> >>,
  << <<\h0384>>, <<\h2019>> >>,
  << <<\h055a>>, <<\h2019>> >>,
  << <<\h055b>>, <<\h2019>> >>,
  << <<\h05f3>>, <<\h2019>> >>,
  << <<\h2019>>, <<\h2019>> >>,
  << <<\h2032>>, <<\h2019>> >>,
  << <<\h2e0d>>, <<\h2019>> >>,
  << <<\h2e1d>>, <<\h2019>> >>,
  << <<\h2cff>>, <<\h2019>> >>,
  << <<\hfe10>>, <<\h2019>> >>,
  << <<\hfe11>>, <<\h2019>> >>,
  << <<\h005d>>, <<\h005d>> >>,
  << <<\h2046>>, <<\h005d>> >>,
  << <<\h23e1>>, <<\h005d>> >>,
  << <<\h2773>>, <<\h005d>> >>,
  << <<\h27e7>>, <<\h005d>> >>,
  << <<\h27ed>>, <<\h005d>> >>,
  << <<\h27ef>>, <<\h005d>> >>,
  << <<\h298c>>, <<\h005d>> >>,
  << <<\h298e>>, <<\h005d>> >>,
  << <<\h2990>>, <<\h005d>> >>,
  << <<\h2998>>, <<\h005d>> >>,
  << <<\h3011>>, <<\h005d>> >>,
  << <<\h3015>>, <<\h005d>> >>,
  << <<\h3017>>, <<\h005d>> >>,
  << <<\h3019>>, <<\h005d>> >>,
  << <<\h301b>>, <<\h005d>> >>,
  << <<\hfe18>>, <<\h005d>> >>,
  << <<\hfe3a>>, <<\h005d>> >>,
  << <<\hfe3c>>, <<\h005d>> >>,
  << <<\hfe48>>, <<\h005d>> >>,
  << <<\hfe5e>>, <<\h005d>> >>,
  << <<\hff3d>>, <<\h005d>> >>,
  << <<\h003b>>, <<\h003b>> >>,
  << <<\h061b>>, <<\h003b>> >>,
  << <<\h037e>>, <<\h003b>> >>,
  << <<\h204f>>, <<\h003b>> >>,
  << <<\h2a1f>>, <<\h003b>> >>,
  << <<\h2a3e>>, <<\h003b>> >>,
  << <<\h2e35>>, <<\h003b>> >>,
  << <<\h2e44>>, <<\h003b>> >>,
  << <<\h2e49>>, <<\h003b>> >>,
  << <<\h2e4e>>, <<\h003b>> >>,
  << <<\ha9c7>>, <<\h003b>> >>,
  << <<\hfe14>>, <<\h003b>> >>,
  << <<\hfe54>>, <<\h003b>> >>,
  << <<\hff1b>>, <<\h003b>> >>,
  << <<\h1145a>>, <<\h003b>> >>,
  << <<\h00a7>>, <<\h00a7>> >>,
  << <<\h00b6>>, <<\h00a7>> >>,
  << <<\h204b>>, <<\h00a7>> >>,
  << <<\h002f>>, <<\h002f>> >>,
  << <<\h060d>>, <<\h002f>> >>,
  << <<\h1735>>, <<\h002f>> >>,
  << <<\h1736>>, <<\h002f>> >>,
  << <<\h2044>>, <<\h002f>> >>,
  << <<\h2215>>, <<\h002f>> >>,
  << <<\h29f6>>, <<\h002f>> >>,
  << <<\h29f8>>, <<\h002f>> >>,
  << <<\h2afb>>, <<\h002f>> >>,
  << <<\h2afd>>, <<\h002f>> >>,
  << <<\h2cfa>>, <<\h002f>> >>,
  << <<\h2cfc>>, <<\h002f>> >>,
  << <<\h2d70>>, <<\h002f>> >>,
  << <<\h2e4a>>, <<\h002f>> >>,
  << <<\ha6f3>>, <<\h002f>> >>,
  << <<\ha6f4>>, <<\h002f>> >>,
  << <<\hff0f>>, <<\h002f>> >>,
  << <<\h007e>>, <<\h007e>> >>,
  << <<\h02dc>>, <<\h007e>> >>,
  << <<\h02f7>>, <<\h007e>> >>,
  << <<\h055c>>, <<\h007e>> >>,
  << <<\h1fc0>>, <<\h007e>> >>,
  << <<\h2053>>, <<\h007e>> >>,
  << <<\h223b>>, <<\h007e>> >>,
  << <<\h223c>>, <<\h007e>> >>,
  << <<\h223d>>, <<\h007e>> >>,
  << <<\h223e>>, <<\h007e>> >>,
  << <<\h223f>>, <<\h007e>> >>,
  << <<\h2241>>, <<\h007e>> >>,
  << <<\h2a6a>>, <<\h007e>> >>,
  << <<\h2a6b>>, <<\h007e>> >>,
  << <<\h2e09>>, <<\h007e>> >>,
  << <<\h2e0a>>, <<\h007e>> >>,
  << <<\h301c>>, <<\h007e>> >>,
  << <<\h3030>>, <<\h007e>> >>,
  << <<\hff5e>>, <<\h007e>> >>
  >>

(* The part of the Unicode Character Database (14.0) the model reads: the   *)
(* general category of every key and value of unicode_map and of the       *)
(* sample characters the callers draw their texts from.                    *)
UnicodeData ==
  [
    Cc |-> {
      \h0000 },
    Cf |-> {
      \h200b },
    Ll |-> {
      \h0061, \h0062, \h0066, \h006f, \h0072 },
    Lu |-> {
      \h0041 },
    Mc |-> {
      \h0903 },
    Me |-> {
      \h20dd },
    Mn |-> {
      \h0301 },
    Nd |-> {
      \h0031 },
    Pc |-> {
      \h005f, \h203f, \h2040, \h2054, \hfe4d, \hfe4e, \hfe4f, \hff3f },
    Pd |-> {
      \h002d, \h058a, \h05be, \h1400, \h1806, \h2010, \h2011, \h2012, \h2013, \h2014, \h2015,
      \h2e17, \h2e3a, \h2e3b, \h2e40, \h301c, \h3030, \h30a0, \hfe58, \hfe63, \hff0d, \h10ead },
    Pe |-> {
      \h0029, \h005d, \h007d, \h169c, \h2046, \h207e, \h208e, \h2309, \h230b, \h232a, \h2769,
      \h276b, \h276d, \h276f, \h2771, \h2773, \h2775, \h27e7, \h27e9, \h27eb, \h27ed, \h27ef,
      \h2984, \h2986, \h2988, \h298a, \h298c, \h298e, \h2990, \h2992, \h2994, \h2996, \h2998,
      \h29fd, \h2e23, \h2e25, \h2e27, \h2e29, \h3009, \h300b, \h300d, \h300f, \h3011, \h3015,
      \h3017, \h3019, \h301b, \h301e, \h301f, \hfd3e, \hfe18, \hfe36, \hfe38, \hfe3a, \hfe3c,
      \hfe3e, \hfe40, \hfe42, \hfe44, \hfe48, \hfe5a, \hfe5c, \hfe5e, \hff09, \hff3d, \hff5d,
      \hff60, \hff63 },
    Pf |-> {
      \h00bb, \h2019, \h201d, \h203a, \h2e03, \h2e05, \h2e0a, \h2e0d, \h2e1d },
    Pi |-> {
      \h00ab, \h2018, \h201b, \h201c, \h201f, \h2039, \h2e02, \h2e04, \h2e09, \h2e0c, \h2e1c },
    Po |-> {
      \h0021, \h0022, \h0023, \h0025, \h0026, \h0027, \h002a, \h002c, \h002e, \h002f, \h003a,
      \h003b, \h003f, \h0040, \h005c, \h00a7, \h00b6, \h00b7, \h00bf, \h037e, \h0387, \h055a,
      \h055b, \h055c, \h055d, \h0589, \h05c3, \h05f3, \h05f4, \h0609, \h060a, \h060c, \h060d,
      \h061b, \h061f, \h066a, \h066b, \h066c, \h066d, \h06d4, \h0701, \h0702, \h0703, \h0704,
      \h0706, \h0707, \h0708, \h0709, \h0830, \h0831, \h083a, \h0a76, \h0f0b, \h0f0c, \h0fd2,
      \h1361, \h1366, \h1367, \h166e, \h16eb, \h16ec, \h16ed, \h1735, \h1736, \h1801, \h1802,
      \h1804, \h1808, \h1809, \h180a, \h1a1e, \h1b5d, \h1c3d, \h1c3e, \h1cd3, \h2017, \h2022,
      \h2024, \h2025, \h2026, \h2027, \h2030, \h2031, \h2032, \h2033, \h2034, \h2035, \h2036,
      \h2037, \h2042, \h2043, \h2047, \h2048, \h2049, \h204b, \h204e, \h204f, \h2051, \h2053,
      \h2055, \h2057, \h205a, \h205d, \h205e, \h2cf9, \h2cfa, \h2cfb, \h2cfc, \h2cff, \h2d70,
      \h2e0f, \h2e10, \h2e11, \h2e12, \h2e13, \h2e16, \h2e18, \h2e2e, \h2e31, \h2e32, \h2e33,
      \h2e34, \h2e35, \h2e3c, \h2e3d, \h2e41, \h2e44, \h2e49, \h2e4a, \h2e4c, \h2e4e, \h3001,
      \h3003, \h30fb, \ha4ff, \ha60e, \ha673, \ha6f3, \ha6f4, \ha9c7, \haa5d, \hfe10, \hfe11,
      \hfe13, \hfe14, \hfe16, \hfe19, \hfe30, \hfe45, \hfe46, \hfe50, \hfe51, \hfe52, \hfe54,
      \hfe55, \hfe56, \hfe60, \hfe61, \hfe68, \hfe6a, \hfe6b, \hff02, \hff05, \hff06, \hff07,
      \hff0a, \hff0c, \hff0e, \hff0f, \hff1a, \hff1b, \hff1f, \hff20, \hff3c, \hff64, \hff65,
      \h10100, \h10101, \h10102, \h1091f, \h10a50, \h10af4, \h10af5, \h11049, \h1104a, \h1104b,
      \h110be, \h110bf, \h11174, \h111c7, \h111c8, \h111de, \h1123a, \h1123c, \h112a9, \h1144d,
      \h1145a, \h115c4, \h11944, \h119e2, \h11a41, \h11c43, \h11ef7, \h16b3a, \h16e97, \h16e98,
      \h1bc9f },
    Ps |-> {
      \h0028, \h005b, \h007b, \h0f3a, \h169b, \h201a, \h201e, \h2045, \h207d, \h208d, \h2308,
      \h230a, \h2329, \h2768, \h276a, \h276c, \h276e, \h2770, \h2772, \h2774, \h27e6, \h27e8,
      \h27ea, \h27ec, \h27ee, \h2983, \h2985, \h2987, \h2989, \h298b, \h298d, \h298f, \h2991,
      \h2993, \h2995, \h2997, \h29fc, \h2e22, \h2e24, \h2e26, \h2e28, \h2e42, \h3008, \h300a,
      \h300c, \h300e, \h3010, \h3014, \h3016, \h3018, \h301a, \h301d, \hfd3f, \hfe17, \hfe35,
      \hfe37, \hfe39, \hfe3b, \hfe3d, \hfe3f, \hfe41, \hfe43, \hfe47, \hfe59, \hfe5b, \hfe5d,
      \hff08, \hff3b, \hff5b, \hff5f, \hff62 },
    Sc |-> {
      \h0024, \h00a3, \h20ac },
    Sk |-> {
      \h0060, \h00b4, \h02c2, \h02c3, \h02d2, \h02d3, \h02d9, \h02db, \h02dc, \h02dd, \h02df,
      \h02e5, \h02e9, \h02ea, \h02ed, \h02f1, \h02f2, \h02f4, \h02f5, \h02f6, \h02f7, \h02f8,
      \h02f9, \h02fa, \h02fb, \h02fc, \h02fe, \h0375, \h0384, \h1fc0, \h1fef, \h1ffd, \h309b,
      \ha712, \ha716, \ha789, \ha78a, \hfbb2, \hfbb3, \hfbbd, \hfbbe, \hff40 },
    Sm |-> {
      \h002b, \h003c, \h003d, \h003e, \h007c, \h007e, \h00d7, \h2044, \h2052, \h207a, \h207b,
      \h207c, \h208a, \h208b, \h208c, \h2142, \h2143, \h214b, \h2212, \h2214, \h2215, \h2216,
      \h2217, \h2219, \h221f, \h2222, \h2236, \h223b, \h223c, \h223d, \h223e, \h223f, \h2241,
      \h2242, \h2243, \h2244, \h2245, \h2246, \h2247, \h2248, \h2249, \h224a, \h224b, \h224c,
      \h224d, \h224e, \h224f, \h2250, \h2251, \h2252, \h2253, \h2254, \h2255, \h2256, \h2257,
      \h2258, \h2259, \h225a, \h225b, \h225c, \h225d, \h225e, \h225f, \h2260, \h2261, \h2262,
      \h2263, \h2264, \h2265, \h2266, \h2267, \h2268, \h2269, \h226a, \h226b, \h226e, \h226f,
      \h2270, \h2271, \h2272, \h2273, \h2274, \h2275, \h227a, \h227b, \h227c, \h227d, \h227e,
      \h227f, \h2280, \h2281, \h22b0, \h22b1, \h22c5, \h22c6, \h22c7, \h22cd, \h22d6, \h22d7,
      \h22d8, \h22d9, \h22dc, \h22dd, \h22de, \h22df, \h22e0, \h22e1, \h22e6, \h22e7, \h22e8,
      \h22e9, \h22ee, \h23a1, \h23a3, \h23a4, \h23a6, \h23a8, \h23ac, \h23af, \h23dc, \h23dd,
      \h23de, \h23df, \h23e0, \h23e1, \h297c, \h297d, \h2981, \h2982, \h2999, \h29a0, \h29f5,
      \h29f6, \h29f7, \h29f8, \h29f9, \h29fe, \h29ff, \h2a09, \h2a1f, \h2a20, \h2a22, \h2a23,
      \h2a24, \h2a25, \h2a26, \h2a27, \h2a28, \h2a29, \h2a2a, \h2a2b, \h2a2c, \h2a2f, \h2a30,
      \h2a31, \h2a32, \h2a3c, \h2a3d, \h2a3e, \h2a66, \h2a67, \h2a6a, \h2a6b, \h2a6c, \h2a6d,
      \h2a6e, \h2a6f, \h2a70, \h2a73, \h2a74, \h2a75, \h2a76, \h2a77, \h2a78, \h2a79, \h2a7a,
      \h2a7b, \h2a7c, \h2a7d, \h2a7e, \h2a7f, \h2a80, \h2a81, \h2a82, \h2a83, \h2a84, \h2a85,
      \h2a86, \h2a87, \h2a88, \h2a89, \h2a8a, \h2a8d, \h2a8e, \h2a95, \h2a96, \h2a97, \h2a98,
      \h2a99, \h2a9a, \h2a9b, \h2a9c, \h2a9d, \h2a9e, \h2a9f, \h2aa0, \h2aa1, \h2aa2, \h2aa3,
      \h2aac, \h2aad, \h2aae, \h2aaf, \h2ab0, \h2ab1, \h2ab2, \h2ab3, \h2ab4, \h2ab5, \h2ab6,
      \h2ab7, \h2ab8, \h2ab9, \h2aba, \h2abb, \h2abc, \h2af6, \h2af7, \h2af8, \h2af9, \h2afa,
      \h2afb, \h2afd, \hfe62, \hfe64, \hfe65, \hfe66, \hff0b, \hff1c, \hff1d, \hff1e, \hff5e },
    So |-> {
      \h23bb, \h1f600 },
    Zl |-> {
      \h2028 },
    Zp |-> {
      \h2029 },
    Zs |-> {
      \h0020, \h00a0, \h1680 }
  ]

(* Every code point the model knows the category of. *)
CodePoints == UNION { UnicodeData[g] : g \in DOMAIN UnicodeData }

(* Outcomes of a Python call: a value, None, or a raised exception. *)
Value(v) == [kind |-> "value", val |-> v]

None == [kind |-> "None", val |-> <<>>]

Raise(e) == [kind |-> "raise", val |-> e]

(* A dict display: the keys of the items, each with the value of the last  *)
(* item that has the key.                                                  *)
dict(items) ==
  LET keys == { items[i][1] : i \in DOMAIN items }
      last(k) == CHOOSE i \in DOMAIN items :
                   /\ items[i][1] = k
                   /\ \A j \in DOMAIN items : items[j][1] = k => j <= i
  IN  [ k \in keys |-> items[last(k)][2] ]

(* Mutant of unicode_map: the line of U+2014 Em Dash (source line 328)      *)
(* written with the key of the line before it, U+2013 En Dash.             *)
unicode_map_items_duplicate ==
  [ i \in DOMAIN unicode_map_literal |->
      IF unicode_map_literal[i][1] = << \h2014 >>
      THEN << << \h2013 >>, unicode_map_literal[i][2] >>
      ELSE unicode_map_literal[i] ]

(* The items of the dict display of unicode_map, in the order the class    *)
(* body evaluates them.                                                    *)
unicode_map_items == unicode_map_literal

(* Mutant of unicode_map: '!' given an entry of its own, as '?' has. *)
class_unicode_map_exclamation ==
  LET d == dict(unicode_map_literal)
  IN  [ k \in DOMAIN d \cup { << \h0021 >> } |->
          IF k = << \h0021 >> THEN << \h0021 >> ELSE d[k] ]

(* Mutant of unicode_map: U+2026 Horizontal Ellipsis mapped to three full   *)
(* stops instead of one.                                                   *)
class_unicode_map_ellipsis ==
  LET d == dict(unicode_map_literal)
  IN  [ k \in DOMAIN d |->
          IF k = << \h2026 >> THEN << \h002e, \h002e, \h002e >> ELSE d[k] ]

(* Mutant of unicode_map: the entry '-': '-' (source line 318) left out. *)
class_unicode_map_without_hyphen ==
  LET d == dict(unicode_map_literal)
  IN  [ k \in DOMAIN d \ { << \h002d >> } |-> d[k] ]

(* Mutant of unicode_map: U+2014 Em Dash mapped to '_' instead of '-'. *)
class_unicode_map_em_dash ==
  LET d == dict(unicode_map_literal)
  IN  [ k \in DOMAIN d |-> IF k = << \h2014 >> THEN << \h005f >> ELSE d[k] ]

(* The class attribute unicode_map once the class body has run. *)
class_unicode_map == dict(unicode_map_items)

(* Mutant of dict.get(key): d[key], which raises KeyError on a miss. *)
dict_getitem(d, key) ==
  IF key \in DOMAIN d THEN Value(d[key]) ELSE Raise("KeyError")

(* dict.get(key): the value, or None when the key is absent. *)
dict_get(d, key) == IF key \in DOMAIN d THEN Value(d[key]) ELSE None

(* unicodedata.category(char): TypeError unless char is one character. *)
category(char) ==
  IF Len(char) # 1
  THEN Raise("TypeError")
  ELSE Value(CHOOSE g \in DOMAIN UnicodeData : char[1] \in UnicodeData[g])

(* Mutant of __is_unicode_category_allowed: "in" written for "not in". *)
is_unicode_category_disallowed(char, disallowed) ==
  LET c == category(char)
  IN  IF c.kind = "raise" THEN c ELSE Value(c.val \in disallowed)

(* Mutant of __is_unicode_category_allowed: Sc and Zs, which the class     *)
(* docstring says are still to be handled, filtered as well.               *)
is_unicode_category_allowed_strict(char, disallowed) ==
  LET c == category(char)
  IN  IF c.kind = "raise" THEN c
      ELSE Value(c.val \notin (disallowed \cup {"Sc", "Zs"}))

(* __is_unicode_category_allowed *)
is_unicode_category_allowed(char, disallowed) ==
  LET c == category(char)
  IN  IF c.kind = "raise" THEN c ELSE Value(c.val \notin disallowed)

(* Mutant of ''.join(parts): the parts concatenated last to first. *)
RECURSIVE join_reversed(_)
join_reversed(ps) ==
  IF ps = << >> THEN << >> ELSE join_reversed(Tail(ps)) \o Head(ps)

(* Mutant of ''.join(parts): ' '.join(parts), a space between the parts. *)
RECURSIVE join_space(_)
join_space(ps) ==
  IF ps = << >> THEN << >>
  ELSE IF Tail(ps) = << >> THEN Head(ps)
  ELSE Head(ps) \o << \h0020 >> \o join_space(Tail(ps))

(* ''.join(parts) *)
RECURSIVE join(_)
join(ps) == IF ps = << >> THEN << >> ELSE Head(ps) \o join(Tail(ps))

(* The sample characters texts are drawn over: U+0000 (Cc), space (Zs),    *)
(* '$' (Sc), '-' (Pd, a value), 'a' (Ll), U+0F3A (Ps, no key),             *)
(* U+2013 En Dash (Pd, key), U+FF0C Fullwidth Comma (Po, key),             *)
(* U+16B3A (Po, key, supplementary plane).                                 *)
Alphabet == { \h0000, \h0020, \h0024, \h002d, \h0061, \h0f3a, \h2013, \h16b3a }

(* The texts named by the documented scenarios. *)
Scenarios ==
  { << \h0066, \h006f, \h006f, \h2014, \h0062, \h0061, \h0072 >>,
    << \h0061, \h0021, \h0062 >>,
    << \h0061, \h0000, \h0062, \h0020, \h0061 >> }

(* The arguments a caller may pass: every text of at most MaxLen sample    *)
(* characters, every known character on its own, and the scenarios.        *)
Texts ==
  UNION { [1..n -> Alphabet] : n \in 0..MaxLen }
    \cup { << c >> : c \in CodePoints }
    \cup Scenarios

(* The characters the texts of concurrent callers and of callers that     *)
(* normalize in chunks are drawn over: U+0000 (Cc, dropped), 'a' (Ll,      *)
(* passed), U+2013 En Dash (key).                                          *)
ShortAlphabet == { \h0000, \h0061, \h2013 }

(* Every text of at most MaxShortLen characters of ShortAlphabet. *)
ShortTexts == UNION { [1..n -> ShortAlphabet] : n \in 0..MaxShortLen }

(* The class body has run and the callers T have not called yet. *)
init(T) ==
  /\ unicode_map = class_unicode_map
  /\ disallowed_unicode_category = disallowed_unicode_category_literal
  /\ threads = T
  /\ pc = [t \in threads |-> "idle"]
  /\ text = [t \in threads |-> << >>]
  /\ pos = [t \in threads |-> 0]
  /\ parts = [t \in threads |-> << >>]
  /\ calls = [t \in threads |-> << >>]
  /\ result = [t \in threads |-> << >>]
  /\ exc = [t \in threads |-> ""]
  /\ kept = [t \in threads |-> << >>]

(* One caller. *)
Init == init({1})

(* Two callers that share the class. *)
InitConcurrent == init({1, 2})

(* The character the generator of caller t is at. *)
char(t) == << text[t][pos[t]] >>

(* A call normalize_text(text=s) of caller t is entered: the generator is   *)
(* created and asked for its first item.                                   *)
enter(t, s) ==
  /\ text' = [text EXCEPT ![t] = s]
  /\ pos' = [pos EXCEPT ![t] = IF s = << >> THEN 0 ELSE 1]
  /\ pc' = [pc EXCEPT ![t] = IF s = << >> THEN "join" ELSE "get"]
  /\ parts' = [parts EXCEPT ![t] = << >>]
  /\ calls' = [calls EXCEPT ![t] = << >>]
  /\ result' = [result EXCEPT ![t] = << >>]
  /\ exc' = [exc EXCEPT ![t] = ""]

(* normalize_text(text=s) is entered, for some text s: the generator is    *)
(* created and asked for its first item.                                   *)
normalize_text(t) ==
  /\ pc[t] = "idle"
  /\ \E s \in Texts : enter(t, s)
  /\ UNCHANGED << unicode_map, disallowed_unicode_category, threads, kept >>

(* normalize_text(text=s) is entered by one of several concurrent callers,  *)
(* for some short text s.                                                  *)
normalize_text_concurrent(t) ==
  /\ pc[t] = "idle"
  /\ \E s \in ShortTexts : enter(t, s)
  /\ UNCHANGED << unicode_map, disallowed_unicode_category, threads, kept >>

(* normalize_text(text=s) is entered for a chunk s of a longer text: the   *)
(* caller has kept fewer than two chunks so far.                           *)
normalize_text_chunk(t) ==
  /\ pc[t] = "idle"
  /\ Len(kept[t]) < 2
  /\ \E s \in ShortTexts : enter(t, s)
  /\ UNCHANGED << unicode_map, disallowed_unicode_category, threads, kept >>

(* normalize_text is entered for the whole text: the two chunks the caller *)
(* has kept, concatenated.                                                 *)
normalize_text_whole(t) ==
  /\ pc[t] = "idle"
  /\ Len(kept[t]) = 2
  /\ enter(t, kept[t][1][1] \o kept[t][2][1])
  /\ UNCHANGED << unicode_map, disallowed_unicode_category, threads, kept >>

(* normalize_text is entered again, for the str the call before returned:  *)
(* normalize_text(text=normalize_text(text=s)).                            *)
normalize_text_again(t) ==
  /\ pc[t] = "done"
  /\ kept[t] = << >>
  /\ kept' = [kept EXCEPT ![t] = << << text[t], result[t] >> >>]
  /\ enter(t, result[t])
  /\ UNCHANGED << unicode_map, disallowed_unicode_category, threads >>

(* Mutant of the generator: after an empty answer it steps over the next   *)
(* character as well.                                                      *)
yield_skip(t, v) ==
  LET step == IF v = << >> THEN 2 ELSE 1
  IN  /\ parts' = [parts EXCEPT ![t] = Append(@, v)]
      /\ pos' = [pos EXCEPT ![t] = @ + step]
      /\ pc' = [pc EXCEPT ![t] =
                  IF pos[t] + step > Len(text[t]) THEN "join" ELSE "get"]
      /\ UNCHANGED exc

(* __replace_character returned v: the generator yields it and moves to    *)
(* the next character, or is exhausted.                                    *)
yield(t, v) ==
  /\ parts' = [parts EXCEPT ![t] = Append(@, v)]
  /\ pos' = [pos EXCEPT ![t] = @ + 1]
  /\ pc' = [pc EXCEPT ![t] = IF pos[t] + 1 > Len(text[t]) THEN "join" ELSE "get"]
  /\ UNCHANGED exc

(* An exception leaves __replace_character, the generator and join. *)
propagate(t, e) ==
  /\ pc' = [pc EXCEPT ![t] = "raised"]
  /\ exc' = [exc EXCEPT ![t] = e]
  /\ UNCHANGED << parts, pos >>

(* Mutant of __replace_character: the category test made before the table  *)
(* lookup, so that a key of a disallowed category is dropped.              *)
replace_character_category_first(t) ==
  /\ pc[t] = "get"
  /\ LET allowed == is_unicode_category_allowed(char(t), disallowed_unicode_category)
         norm_char == dict_get(unicode_map, char(t))
     IN  IF allowed.kind = "value" /\ ~allowed.val THEN yield(t, << >>)
         ELSE IF norm_char.kind = "value" THEN yield(t, norm_char.val)
         ELSE yield(t, char(t))
  /\ calls' = [calls EXCEPT ![t] = Append(@, << "category", pos[t] >>)]
  /\ UNCHANGED << unicode_map, disallowed_unicode_category, threads, text, result, kept >>

(* __replace_character, first statement: the table lookup; a hit is        *)
(* returned at once.                                                       *)
replace_character_get(t) ==
  /\ pc[t] = "get"
  /\ LET norm_char == dict_get(unicode_map, char(t))
     IN  IF norm_char.kind = "raise" THEN propagate(t, norm_char.val)
         ELSE IF norm_char.kind = "value" THEN yield(t, norm_char.val)
         ELSE /\ pc' = [pc EXCEPT ![t] = "category"]
              /\ UNCHANGED << parts, pos, exc >>
  /\ calls' = [calls EXCEPT ![t] = Append(@, << "get", pos[t] >>)]
  /\ UNCHANGED << unicode_map, disallowed_unicode_category, threads, text, result, kept >>

(* Mutant of __replace_character: the answer found by the category test is *)
(* stored in unicode_map, to spare the next call the category lookup.      *)
replace_character_category_memo(t) ==
  /\ pc[t] = "category"
  /\ LET allowed == is_unicode_category_allowed(char(t), disallowed_unicode_category)
         answer == IF allowed.val THEN char(t) ELSE << >>
     IN  /\ yield(t, answer)
         /\ unicode_map' =
              [ k \in DOMAIN unicode_map \cup { char(t) } |->
                  IF k = char(t) THEN answer ELSE unicode_map[k] ]
  /\ calls' = [calls EXCEPT ![t] = Append(@, << "category", pos[t] >>)]
  /\ UNCHANGED << disallowed_unicode_category, threads, text, result, kept >>

(* Mutant of __replace_character: the character that went through the     *)
(* category test is stored in unicode_map as its own target, whatever the  *)
(* test said, so that a later call finds it in the table.                  *)
replace_character_category_cache(t) ==
  /\ pc[t] = "category"
  /\ LET allowed == is_unicode_category_allowed(char(t), disallowed_unicode_category)
     IN  /\ IF allowed.val THEN yield(t, char(t)) ELSE yield(t, << >>)
         /\ unicode_map' =
              [ k \in DOMAIN unicode_map \cup { char(t) } |->
                  IF k = char(t) THEN char(t) ELSE unicode_map[k] ]
  /\ calls' = [calls EXCEPT ![t] = Append(@, << "category", pos[t] >>)]
  /\ UNCHANGED << disallowed_unicode_category, threads, text, result, kept >>

(* __replace_character, after a miss: the category test; the character     *)
(* itself or '' is returned.                                               *)
replace_character_category(t) ==
  /\ pc[t] = "category"
  /\ LET allowed == is_unicode_category_allowed(char(t), disallowed_unicode_category)
     IN  IF allowed.kind = "raise" THEN propagate(t, allowed.val)
         ELSE IF allowed.val THEN yield(t, char(t))
         ELSE yield(t, << >>)
  /\ calls' = [calls EXCEPT ![t] = Append(@, << "category", pos[t] >>)]
  /\ UNCHANGED << unicode_map, disallowed_unicode_category, threads, text, result, kept >>

(* Mutant of normalize_text: the answers are collected in one list that    *)
(* all callers share, and join concatenates that list.                     *)
normalize_text_return_shared(t) ==
  /\ pc[t] = "join"
  /\ LET shared == IF 2 \in threads THEN parts[1] \o parts[2] ELSE parts[1]
     IN  result' = [result EXCEPT ![t] = join(shared)]
  /\ pc' = [pc EXCEPT ![t] = "done"]
  /\ UNCHANGED << unicode_map, disallowed_unicode_category, threads, text, pos,
                  parts, calls, exc, kept >>

(* The generator is exhausted: join concatenates and normalize_text        *)
(* returns.                                                                *)
normalize_text_return(t) ==
  /\ pc[t] = "join"
  /\ result' = [result EXCEPT ![t] = join(parts[t])]
  /\ pc' = [pc EXCEPT ![t] = "done"]
  /\ UNCHANGED << unicode_map, disallowed_unicode_category, threads, text, pos,
                  parts, calls, exc, kept >>

(* The caller is finished with what the call gave it (the returned str or   *)
(* the exception) and is free to call again.                               *)
discard(t) ==
  /\ pc[t] \in {"done", "raised"}
  /\ pc' = [pc EXCEPT ![t] = "idle"]
  /\ text' = [text EXCEPT ![t] = << >>]
  /\ pos' = [pos EXCEPT ![t] = 0]
  /\ parts' = [parts EXCEPT ![t] = << >>]
  /\ calls' = [calls EXCEPT ![t] = << >>]
  /\ result' = [result EXCEPT ![t] = << >>]
  /\ exc' = [exc EXCEPT ![t] = ""]
  /\ kept' = [kept EXCEPT ![t] = << >>]
  /\ UNCHANGED << unicode_map, disallowed_unicode_category, threads >>

(* The caller keeps the text and the returned str of the call, as one of   *)
(* the chunks it normalizes, and is free to call again.                    *)
keep(t) ==
  /\ pc[t] = "done"
  /\ Len(kept[t]) < 2
  /\ kept' = [kept EXCEPT ![t] = Append(@, << text[t], result[t] >>)]
  /\ pc' = [pc EXCEPT ![t] = "idle"]
  /\ text' = [text EXCEPT ![t] = << >>]
  /\ pos' = [pos EXCEPT ![t] = 0]
  /\ parts' = [parts EXCEPT ![t] = << >>]
  /\ calls' = [calls EXCEPT ![t] = << >>]
  /\ result' = [result EXCEPT ![t] = << >>]
  /\ UNCHANGED << unicode_map, disallowed_unicode_category, threads, exc >>

(* One caller: calls on any text, and calls again on what a call returned. *)
Next ==
  \/ \E t \in threads : normalize_text(t)
  \/ \E t \in threads : normalize_text_again(t)
  \/ \E t \in threads : replace_character_get(t)
  \/ \E t \in threads : replace_character_category(t)
  \/ \E t \in threads : normalize_text_return(t)
  \/ \E t \in threads : discard(t)

(* Callers whose calls on short texts interleave step by step. *)
NextConcurrent ==
  \/ \E t \in threads : normalize_text_concurrent(t)
  \/ \E t \in threads : replace_character_get(t)
  \/ \E t \in threads : replace_character_category(t)
  \/ \E t \in threads : normalize_text_return(t)
  \/ \E t \in threads : discard(t)

(* One caller that normalizes two chunks, keeps both results, and then     *)
(* normalizes the two chunks as one text.                                  *)
NextChunked ==
  \/ \E t \in threads : normalize_text_chunk(t)
  \/ \E t \in threads : normalize_text_whole(t)
  \/ \E t \in threads : replace_character_get(t)
  \/ \E t \in threads : replace_character_category(t)
  \/ \E t \in threads : normalize_text_return(t)
  \/ \E t \in threads : keep(t)
  \/ \E t \in threads : discard(t)

SpecConcurrent == InitConcurrent /\ [][NextConcurrent]_vars

SpecChunked == Init /\ [][NextChunked]_vars

Spec == Init /\ [][Next]_vars

(* The identities a caller may have. *)
Callers == {1, 2}

(* Caller t's call, once entered, takes its next step. *)
run(t) ==
  /\ t \in threads
  /\ \/ replace_character_get(t)
     \/ replace_character_category(t)
     \/ normalize_text_return(t)

(* normalize_text is synchronous code without suspension points: a call    *)
(* that has a next step takes it.                                          *)
FairSpec == Spec /\ \A t \in Callers : WF_vars(run(t))

(***************************************************************************)
(* What the properties below read off a state.                             *)
(***************************************************************************)

(* c is a key of the table. *)
IsKey(c) == << c >> \in DOMAIN unicode_map

(* The general category of c in the Unicode Character Database. *)
GeneralCategory(c) == CHOOSE g \in DOMAIN UnicodeData : c \in UnicodeData[g]

(* c is of a category the class filters. *)
IsDisallowed(c) == GeneralCategory(c) \in disallowed_unicode_category

(* The positions of caller t's text that __replace_character has answered. *)
Decided(t) == 1..Len(parts[t])

(* C1 - Mapping precedence: whatever its general category, a character     *)
(* that is a key of unicode_map is answered with unicode_map[c]; U+2013    *)
(* En Dash, of the filtered category Pd, is a key and is answered with     *)
(* its target, never with '' and never with itself.                        *)
MappingPrecedence ==
  /\ IsKey(\h2013) /\ GeneralCategory(\h2013) = "Pd" /\ IsDisallowed(\h2013)
  /\ \A t \in threads : \A i \in Decided(t) :
       LET c == text[t][i]
       IN  IsKey(c) =>
             /\ parts[t][i] = unicode_map[<< c >>]
             /\ parts[t][i] # << >>
             /\ (parts[t][i] = << c >> => unicode_map[<< c >>] = << c >>)

(* A key of a filtered category has been answered with another character. *)
MappingPrecedenceWitness ==
  \E t \in threads : \E i \in Decided(t) :
    /\ text[t][i] = \h2013
    /\ IsDisallowed(\h2013)
    /\ parts[t][i] = << \h002d >>

(* The text without the characters that are no keys and are filtered. *)
WithoutDisallowed(s) == SelectSeq(s, LAMBDA c : ~IsDisallowed(c))

(* C2 - Category filtering: a character that is no key and whose category  *)
(* is filtered is answered with ''; the result for a text of such          *)
(* characters and pass-through characters is the text with exactly the     *)
(* filtered ones removed; U+0000 (Cc) is one of them.                      *)
CategoryFiltering ==
  /\ ~IsKey(\h0000) /\ GeneralCategory(\h0000) = "Cc" /\ IsDisallowed(\h0000)
  /\ \A t \in threads :
       /\ \A i \in Decided(t) :
            (~IsKey(text[t][i]) /\ IsDisallowed(text[t][i])) => parts[t][i] = << >>
       /\ (pc[t] = "done" /\ \A i \in DOMAIN text[t] : ~IsKey(text[t][i]))
            => result[t] = WithoutDisallowed(text[t])

(* A call on plain text around U+0000 has returned the text without it. *)
CategoryFilteringWitness ==
  \E t \in threads :
    /\ pc[t] = "done"
    /\ text[t] = << \h0061, \h0000, \h0062, \h0020, \h0061 >>
    /\ result[t] = << \h0061, \h0062, \h0020, \h0061 >>

(* C3 - Pass-through: a character that is no key and whose category is not *)
(* filtered is answered with itself; 'a' (Ll), the space (Zs) and the      *)
(* currency symbols '$', U+00A3, U+20AC (Sc) are such characters.          *)
PassThrough ==
  /\ \A c \in {\h0061, \h0020, \h0024, \h00a3, \h20ac} : ~IsKey(c) /\ ~IsDisallowed(c)
  /\ GeneralCategory(\h0061) = "Ll" /\ GeneralCategory(\h0020) = "Zs"
  /\ \A c \in {\h0024, \h00a3, \h20ac} : GeneralCategory(c) = "Sc"
  /\ \A t \in threads :
       /\ \A i \in Decided(t) :
            (~IsKey(text[t][i]) /\ ~IsDisallowed(text[t][i]))
              => parts[t][i] = << text[t][i] >>
       /\ (pc[t] = "done"
             /\ \A i \in DOMAIN text[t] : ~IsKey(text[t][i]) /\ ~IsDisallowed(text[t][i]))
            => result[t] = text[t]

(* A call on a letter, a space and a currency symbol has returned them. *)
PassThroughWitness ==
  \E t \in threads :
    /\ pc[t] = "done"
    /\ text[t] = << \h0061, \h0020, \h0024 >>
    /\ result[t] = text[t]

(* The fifteen category codes the documentation lists. *)
DocumentedCategories ==
  { "Cc", "Cf", "Mc", "Me", "Mn", "Pc", "Pd", "Pe", "Pf", "Pi", "Po", "Sm",
    "So", "Zl", "Zp" }

(* C4, as claimed - the filtered categories are exactly the fifteen codes   *)
(* Cc Cf Mc Me Mn Pc Pd Pe Pf Pi Po Sm So Zl Zp in every state of every    *)
(* normalize_text call.                                                    *)
DisallowedIsDocumentedFifteen ==
  \A t \in threads :
    pc[t] # "idle" => disallowed_unicode_category = DocumentedCategories

(* C4, amended - the filtered categories are exactly sixteen codes, the     *)
(* fifteen documented ones and Ps; Sc and Zs are not among them; so in     *)
(* every state of every normalize_text call.                               *)
DisallowedIsSixteen ==
  \A t \in threads :
    pc[t] # "idle" =>
      /\ disallowed_unicode_category = DocumentedCategories \cup {"Ps"}
      /\ Cardinality(disallowed_unicode_category) = 16
      /\ "Sc" \notin disallowed_unicode_category
      /\ "Zs" \notin disallowed_unicode_category
      /\ \A i \in Decided(t) :
           (~IsKey(text[t][i]) /\ GeneralCategory(text[t][i]) = "Ps")
             => parts[t][i] = << >>

(* A call has dropped U+0F3A, a Ps character that is no key. *)
DisallowedIsSixteenWitness ==
  \E t \in threads : \E i \in Decided(t) :
    /\ text[t][i] = \h0f3a
    /\ GeneralCategory(\h0f3a) = "Ps"
    /\ ~IsKey(\h0f3a)
    /\ parts[t][i] = << >>

(* The positions of s whose character is kept: a key, or of an unfiltered  *)
(* category.                                                               *)
KeptPositions(s) == { i \in DOMAIN s : IsKey(s[i]) \/ ~IsDisallowed(s[i]) }

(* C5 - Length non-increase: the value unicode_map has for a key met in a  *)
(* text (every key is met: each is called on) is one character, every      *)
(* character is answered with at most one character, and a returned result *)
(* is no longer than the text: it has as many characters as the text has   *)
(* keys and characters of unfiltered categories.                           *)
LengthNonIncrease ==
  \A t \in threads :
    /\ \A i \in Decided(t) :
         /\ Len(parts[t][i]) \in {0, 1}
         /\ IsKey(text[t][i]) => Len(unicode_map[<< text[t][i] >>]) = 1
    /\ pc[t] = "done" =>
         /\ Len(result[t]) <= Len(text[t])
         /\ Len(result[t]) = Cardinality(KeptPositions(text[t]))

(* A call has returned a result that is shorter than its text, not empty,  *)
(* and holds a mapped character.                                           *)
LengthNonIncreaseWitness ==
  \E t \in threads :
    /\ pc[t] = "done"
    /\ 0 < Len(result[t]) /\ Len(result[t]) < Len(text[t])
    /\ \E i \in DOMAIN text[t] : IsKey(text[t][i]) /\ text[t][i] # \h002d

(* The positions of caller t's text that were answered with a character. *)
Emitting(t) == { i \in Decided(t) : parts[t][i] # << >> }

(* C6 - Order preservation: the characters are answered first to last, and *)
(* the result is the answers in the order of their positions: the answer   *)
(* to an emitting position i stands in the result after the answers to     *)
(* the emitting positions before i.                                        *)
OrderPreservation ==
  \A t \in threads :
    /\ pc[t] \in {"get", "category"} => Len(parts[t]) = pos[t] - 1
    /\ \A a, b \in DOMAIN calls[t] : a < b => calls[t][a][2] <= calls[t][b][2]
    /\ pc[t] = "done" =>
         /\ Len(parts[t]) = Len(text[t])
         /\ Len(result[t]) = Cardinality(Emitting(t))
         /\ \A i \in Emitting(t) :
              result[t][Cardinality({ j \in Emitting(t) : j <= i })] = parts[t][i][1]

(* A call has returned two different characters, from positions with a     *)
(* dropped character between them, in the order of the text.               *)
OrderPreservationWitness ==
  \E t \in threads :
    /\ pc[t] = "done"
    /\ text[t] = << \h2013, \h0000, \h0061 >>
    /\ result[t] = << \h002d, \h0061 >>

(* The values of the table the class body makes. *)
ClassTargets == { class_unicode_map[k] : k \in DOMAIN class_unicode_map }

(* The values of the table as it is now. *)
Targets ==
  IF unicode_map = class_unicode_map THEN ClassTargets
  ELSE { unicode_map[k] : k \in DOMAIN unicode_map }

(* s is made of table values (targets) and of characters that are no keys  *)
(* and are of unfiltered categories.                                       *)
AlreadyNormalized(s, targets) ==
  \A i \in DOMAIN s :
    << s[i] >> \in targets \/ (~IsKey(s[i]) /\ ~IsDisallowed(s[i]))

(* The per-character decision answers the one-character str v with v: v is *)
(* a key mapped to itself, or no key and of an unfiltered category.        *)
FixedPoint(v) ==
  /\ Len(v) = 1
  /\ IF v \in DOMAIN unicode_map THEN unicode_map[v] = v ELSE ~IsDisallowed(v[1])

(* C7 - Idempotence on already-normalized text: the result for a text made *)
(* of table values and of unfiltered non-keys is the text; and the value   *)
(* unicode_map has for a key met in a text (every key is met: each is      *)
(* called on) is a fixed point of the per-character decision.              *)
IdempotentOnNormalized ==
  LET targets == Targets
  IN  \A t \in threads :
        /\ \A i \in Decided(t) :
             IsKey(text[t][i]) => FixedPoint(unicode_map[<< text[t][i] >>])
        /\ (pc[t] = "done" /\ AlreadyNormalized(text[t], targets))
             => result[t] = text[t]

(* A call on a text of a table value of a filtered category and           *)
(* pass-through characters has returned the text.                          *)
IdempotentOnNormalizedWitness ==
  \E t \in threads :
    /\ pc[t] = "done"
    /\ text[t] = << \h0061, \h002d, \h0020 >>
    /\ << \h002d >> \in Targets /\ IsDisallowed(\h002d)
    /\ AlreadyNormalized(text[t], Targets)
    /\ result[t] = text[t]

(* "foo" + U+2014 + "bar" *)
FooEmDashBar == << \h0066, \h006f, \h006f, \h2014, \h0062, \h0061, \h0072 >>

(* C8 - Table content: U+2013 and U+2014 are keys with value '-', U+FF0C   *)
(* is a key with value ','; "foo" + U+2014 + "bar" returns "foo-bar", and  *)
(* every U+2013, U+2014 and U+FF0C of a text is answered with '-', '-'     *)
(* and ',' and is absent from the result.                                  *)
TableScenarios ==
  /\ IsKey(\h2013) /\ unicode_map[<< \h2013 >>] = << \h002d >>
  /\ IsKey(\h2014) /\ unicode_map[<< \h2014 >>] = << \h002d >>
  /\ IsKey(\hff0c) /\ unicode_map[<< \hff0c >>] = << \h002c >>
  /\ \A t \in threads :
       /\ \A i \in Decided(t) :
            /\ text[t][i] \in {\h2013, \h2014} => parts[t][i] = << \h002d >>
            /\ text[t][i] = \hff0c => parts[t][i] = << \h002c >>
       /\ pc[t] = "done" =>
            /\ \A k \in DOMAIN result[t] : result[t][k] \notin {\h2013, \h2014, \hff0c}
            /\ text[t] = FooEmDashBar
                 => result[t] = << \h0066, \h006f, \h006f, \h002d, \h0062, \h0061, \h0072 >>

(* The call on "foo" + U+2014 + "bar" has returned "foo-bar". *)
TableScenariosWitness ==
  \E t \in threads :
    /\ pc[t] = "done"
    /\ text[t] = FooEmDashBar
    /\ result[t] = << \h0066, \h006f, \h006f, \h002d, \h0062, \h0061, \h0072 >>

(* The outcomes of position i of caller t's text that hold. *)
Outcomes(t, i) ==
  LET c == text[t][i]
  IN  { o \in {"mapped", "allowed", "dropped"} :
          \/ o = "mapped" /\ IsKey(c) /\ parts[t][i] = unicode_map[<< c >>]
          \/ o = "allowed" /\ ~IsKey(c) /\ ~IsDisallowed(c) /\ parts[t][i] = << c >>
          \/ o = "dropped" /\ ~IsKey(c) /\ IsDisallowed(c) /\ parts[t][i] = << >> }

(* C9 - Totality: no call ends in an exception and no call is stuck; a     *)
(* returned result is a str; the empty text returns the empty str; a       *)
(* supplementary-plane character is one character (U+16B3A alone returns   *)
(* '&' after one table lookup); every answered character has exactly one   *)
(* of the outcomes mapped, allowed, dropped.                               *)
Totality ==
  \A t \in threads :
    /\ pc[t] # "raised" /\ exc[t] = ""
    /\ pc[t] \in {"get", "category", "join"} =>
         ENABLED (\/ replace_character_get(t)
                  \/ replace_character_category(t)
                  \/ normalize_text_return(t))
    /\ \A i \in Decided(t) : Cardinality(Outcomes(t, i)) = 1
    /\ pc[t] = "done" =>
         /\ result[t] \in Seq(CodePoints)
         /\ Len(parts[t]) = Len(text[t])
         /\ text[t] = << >> => result[t] = << >>
         /\ text[t] = << \h16b3a >> =>
              /\ result[t] = << \h0026 >>
              /\ calls[t] = << << "get", 1 >> >>

(* The call on U+16B3A alone has returned '&'. *)
TotalityWitness ==
  \E t \in threads :
    /\ pc[t] = "done"
    /\ text[t] = << \h16b3a >>
    /\ result[t] = << \h0026 >>
    /\ exc[t] = ""

(* C10 - No side effects: no step of a normalize_text call, and so no call *)
(* and no sequence of calls, changes unicode_map or                        *)
(* disallowed_unicode_category.                                            *)
NoSideEffects ==
  [][ /\ unicode_map' = unicode_map
      /\ disallowed_unicode_category' = disallowed_unicode_category ]_vars

(* A call that made a table hit and a category lookup has returned, and    *)
(* the tables are as the class body made them.                             *)
NoSideEffectsWitness ==
  \E t \in threads :
    /\ pc[t] = "done"
    /\ \E a, b \in DOMAIN calls[t] : calls[t][a][1] = "get" /\ calls[t][b][1] = "category"
    /\ \E i \in DOMAIN text[t] : IsKey(text[t][i])
    /\ unicode_map = class_unicode_map
    /\ disallowed_unicode_category = disallowed_unicode_category_literal

(* The keys written in the dict display. *)
LiteralKeys == { unicode_map_items[i][1] : i \in DOMAIN unicode_map_items }

(* For each key written in the dict display, the values written with it. *)
LiteralValues ==
  [ k \in LiteralKeys |->
      { unicode_map_items[i][2] :
          i \in { j \in DOMAIN unicode_map_items : unicode_map_items[j][1] = k } } ]

(* C12 - Key uniqueness: the dict display writes each key once: it has as  *)
(* many distinct keys as entries, unicode_map has an entry for each, and   *)
(* the answer for a key met in a text (every key is met) is the one value  *)
(* written with it, so no entry is overridden by a later one.              *)
KeyUniqueness ==
  /\ Cardinality(LiteralKeys) = Len(unicode_map_items)
  /\ Cardinality(DOMAIN unicode_map) = Len(unicode_map_items)
  /\ \A t \in threads : \A i \in Decided(t) :
       << text[t][i] >> \in LiteralKeys
         => LiteralValues[<< text[t][i] >>] = { parts[t][i] }

(* U+2013 and U+2014, keys written on neighbouring lines, have both been   *)
(* answered with the value of their own line.                              *)
KeyUniquenessWitness ==
  \E t \in threads :
    /\ pc[t] = "done"
    /\ text[t] = FooEmDashBar
    /\ LiteralValues[<< \h2014 >>] = { parts[t][4] }
    /\ << \h2013 >> \in LiteralKeys

(* The lookups of caller t's log that are about position p. *)
LookupsAt(t, p) == { a \in DOMAIN calls[t] : calls[t][a][2] = p }

(* C14 - Lookup ordering: for each character the table lookup comes first; *)
(* unicodedata.category is asked only directly after a table miss for the  *)
(* same character, never for a key, and at most once per character.        *)
LookupOrdering ==
  \A t \in threads :
    /\ \A p \in Decided(t) :
         LET at == LookupsAt(t, p)
             first == CHOOSE a \in at : \A b \in at : a <= b
         IN  /\ at # {}
             /\ calls[t][first][1] = "get"
             /\ Cardinality({ a \in at : calls[t][a][1] = "get" }) = 1
             /\ Cardinality({ a \in at : calls[t][a][1] = "category" })
                  = IF IsKey(text[t][p]) THEN 0 ELSE 1
    /\ \A a \in DOMAIN calls[t] :
         calls[t][a][1] = "category" =>
           /\ ~IsKey(text[t][calls[t][a][2]])
           /\ a > 1
           /\ calls[t][a - 1] = << "get", calls[t][a][2] >>

(* A call on a key between two non-keys has returned: the key cost one     *)
(* table lookup, each non-key a table lookup and then a category lookup.   *)
LookupOrderingWitness ==
  \E t \in threads :
    /\ pc[t] = "done"
    /\ text[t] = << \h0061, \h2013, \h0000 >>
    /\ calls[t] = << << "get", 1 >>, << "category", 1 >>, << "get", 2 >>,
                     << "get", 3 >>, << "category", 3 >> >>

(* The categories no output character has. *)
NeverEmitted == { "Cc", "Cf", "Mc", "Me", "Mn", "So", "Zl", "Zp" }

(* x may stand in an output: it is a table value, or no key and of an      *)
(* unfiltered category; and its category is none of NeverEmitted.          *)
InOutputAlphabet(x, targets) ==
  /\ (~IsKey(x) /\ ~IsDisallowed(x)) \/ << x >> \in targets
  /\ GeneralCategory(x) \notin NeverEmitted

(* C18 - Output alphabet: every character of every answer collected so far *)
(* and of every returned result is a table value or a non-key of an        *)
(* unfiltered category, and is of none of the categories Cc, Cf, Mc, Me,   *)
(* Mn, So, Zl, Zp; the value of a key met in a text (every key is met) is  *)
(* of none of them either.                                                 *)
OutputAlphabet ==
  LET targets == Targets
  IN  \A t \in threads :
        /\ \A i \in Decided(t) :
             /\ \A k \in DOMAIN parts[t][i] : InOutputAlphabet(parts[t][i][k], targets)
             /\ IsKey(text[t][i]) =>
                  \A k \in DOMAIN unicode_map[<< text[t][i] >>] :
                    GeneralCategory(unicode_map[<< text[t][i] >>][k]) \notin NeverEmitted
        /\ pc[t] = "done" =>
             \A k \in DOMAIN result[t] : InOutputAlphabet(result[t][k], targets)

(* A call on a text with a control character, a Ps character and a key has *)
(* returned a result that holds neither of the first two.                  *)
OutputAlphabetWitness ==
  \E t \in threads :
    /\ pc[t] = "done"
    /\ text[t] = << \h0000, \h0f3a, \h2013 >>
    /\ result[t] = << \h002d >>

(* C19 - Unmapped ASCII punctuation is deleted: '!' and '#' (Po) and '|'   *)
(* (Sm) are no keys and of filtered categories, each is answered with '',  *)
(* and "a!b" returns "ab".                                                 *)
AsciiPunctuationDeleted ==
  /\ \A c \in {\h0021, \h0023, \h007c} : ~IsKey(c) /\ IsDisallowed(c)
  /\ GeneralCategory(\h0021) = "Po" /\ GeneralCategory(\h0023) = "Po"
  /\ GeneralCategory(\h007c) = "Sm"
  /\ \A t \in threads :
       /\ \A i \in Decided(t) :
            text[t][i] \in {\h0021, \h0023, \h007c} => parts[t][i] = << >>
       /\ (pc[t] = "done" /\ text[t] = << \h0061, \h0021, \h0062 >>)
            => result[t] = << \h0061, \h0062 >>

(* The call on "a!b" has returned "ab". *)
AsciiPunctuationDeletedWitness ==
  \E t \in threads :
    /\ pc[t] = "done"
    /\ text[t] = << \h0061, \h0021, \h0062 >>
    /\ result[t] = << \h0061, \h0062 >>

(* The positions caller t has made a per-character decision for, one entry *)
(* per decision.                                                           *)
Decisions(t) ==
  [ a \in { b \in DOMAIN calls[t] : calls[t][b][1] = "get" } |-> calls[t][a][2] ]

(* C15 - Termination: a call that has been entered eventually returns, and *)
(* when it has returned it has made exactly one per-character decision for *)
(* each of the n positions of its text, none skipped and none repeated.    *)
Termination ==
  /\ \A t \in Callers :
       (t \in threads /\ pc[t] \in {"get", "category", "join"})
         ~> (t \in threads /\ pc[t] = "done")
  /\ [](\A t \in threads :
          pc[t] = "done" =>
            /\ Len(parts[t]) = Len(text[t])
            /\ Cardinality(DOMAIN Decisions(t)) = Len(text[t])
            /\ \A p \in DOMAIN text[t] :
                 Cardinality({ a \in DOMAIN Decisions(t) : Decisions(t)[a] = p }) = 1)

(* The call on the seven characters of "foo" + U+2014 + "bar" has returned *)
(* after seven decisions.                                                  *)
TerminationWitness ==
  \E t \in threads :
    /\ pc[t] = "done"
    /\ text[t] = FooEmDashBar
    /\ Cardinality(DOMAIN Decisions(t)) = 7

(* C11 - Determinism: two calls on the same text return the same str,      *)
(* whichever caller made them and whatever calls were made before,         *)
(* between and during them: whenever two callers hold the results of       *)
(* calls on equal texts, the results are equal.                            *)
Determinism ==
  \A t, u \in threads :
    (pc[t] = "done" /\ pc[u] = "done" /\ text[t] = text[u])
      => result[t] = result[u]

(* Two callers hold the results of their calls on the same text, one with  *)
(* a key and a dropped character.                                          *)
DeterminismWitness ==
  /\ threads = {1, 2}
  /\ pc[1] = "done" /\ pc[2] = "done"
  /\ text[1] = << \h2013, \h0000 >> /\ text[2] = text[1]
  /\ result[1] = << \h002d >> /\ result[2] = result[1]

(* What the class body's tables answer for the character c. *)
Decision(c) ==
  IF << c >> \in DOMAIN class_unicode_map THEN class_unicode_map[<< c >>]
  ELSE IF GeneralCategory(c) \in disallowed_unicode_category_literal THEN << >>
  ELSE << c >>

(* The str a call on s returns when no other call runs: the answers for    *)
(* its characters, in order.                                               *)
RECURSIVE Alone(_)
Alone(s) == IF s = << >> THEN << >> ELSE Decision(Head(s)) \o Alone(Tail(s))

(* C13 - Concurrent sharing: with two callers whose per-character steps    *)
(* interleave in every order, each call returns what it returns when run   *)
(* alone, and the answers a call has collected so far are those of its own *)
(* characters.                                                             *)
ConcurrentSharing ==
  \A t \in threads :
    /\ \A i \in Decided(t) : parts[t][i] = Decision(text[t][i])
    /\ pc[t] = "done" => result[t] = Alone(text[t])

(* Both callers are in the middle of a call, each with answers collected   *)
(* and characters left, on different texts.                                *)
ConcurrentSharingWitness ==
  /\ threads = {1, 2}
  /\ pc[1] = "category" /\ pc[2] = "get"
  /\ text[1] = << \h2013, \h0000 >> /\ parts[1] = << << \h002d >> >>
  /\ text[2] = << \h0061, \h2013 >> /\ parts[2] = << << \h0061 >> >>

(* C16 - Full idempotence: a call on the str a call returned returns that  *)
(* str: every character of a result is answered with itself in the second  *)
(* pass.                                                                   *)
FullIdempotence ==
  \A t \in threads :
    (kept[t] # << >> /\ text[t] = kept[t][1][2]) =>
      /\ \A i \in Decided(t) : parts[t][i] = << text[t][i] >>
      /\ pc[t] = "done" => result[t] = text[t]

(* The call on the result of the call on U+2013, U+0000, 'a', space has    *)
(* returned that result.                                                   *)
FullIdempotenceWitness ==
  \E t \in threads :
    /\ pc[t] = "done"
    /\ kept[t] = << << << \h2013, \h0000, \h0061 >>, << \h002d, \h0061 >> >> >>
    /\ text[t] = << \h002d, \h0061 >>
    /\ result[t] = << \h002d, \h0061 >>

(* C17 - Concatenation homomorphism: the call on s + t returns the str the *)
(* call on s returned followed by the str the call on t returned; equal    *)
(* characters of a text get equal answers wherever they stand, and a       *)
(* result is the answers for the characters of the text, in order.         *)
ConcatenationHomomorphism ==
  \A t \in threads :
    /\ \A i, j \in Decided(t) : text[t][i] = text[t][j] => parts[t][i] = parts[t][j]
    /\ pc[t] = "done" => result[t] = Alone(text[t])
    /\ (pc[t] = "done" /\ Len(kept[t]) = 2
          /\ text[t] = kept[t][1][1] \o kept[t][2][1])
         => result[t] = kept[t][1][2] \o kept[t][2][2]

(* The caller has normalized U+2013, U+0000 and then 'a', U+2013, and the  *)
(* call on the four characters as one text has returned.                   *)
ConcatenationHomomorphismWitness ==
  \E t \in threads :
    /\ pc[t] = "done"
    /\ kept[t] = << << << \h2013, \h0000 >>, << \h002d >> >>,
                    << << \h0061, \h2013 >>, << \h0061, \h002d >> >> >>
    /\ text[t] = << \h2013, \h0000, \h0061, \h2013 >>
    /\ result[t] = << \h002d, \h0061, \h002d >>

====
